---- MODULE Spec2Model ----
(***************************************************************************)
(* Model of the gnomad-gks orchestration scripts.                          *)
(*                                                                         *)
(*   export_ht_to_parquet.py      the per-contig exporter: resume/overwrite *)
(*                                gate, partition-count adjuster, write     *)
(*   polars_parquet_smoketest.py  the bounded position sampler and the      *)
(*                                query plan builder                        *)
(*                                                                         *)
(* SpecExport   runs the exporter (several runs in a row, a run may be      *)
(*               interrupted).                                              *)
(* SpecSampler  calls _sample_existing_positions_from_files twice on the    *)
(*               same inputs.                                               *)
(* SpecRunner   runs the smoke test's main() from the basic stats to the    *)
(*               pool of candidate positions.                               *)
(* SpecPlan     builds the point queries from a pool.                       *)
(* The engine calls (Spark, Hail, Polars) are modelled by their documented  *)
(* contract; random.Random by a small linear congruential generator.        *)
(***************************************************************************)
EXTENDS Integers, Sequences, FiniteSets, TLC

\* ------------------------------------------------------------------ bounds
MaxRuns == 2
MaxParts == 3
MaxFileArg == 2
MaxListed == 2      \* parquet files listed under the contig directory
MaxRows == 2        \* rows in the listed files, all together
MaxPos == 2         \* positions are 1..MaxPos
MaxSeed == 1        \* --seed is 0..MaxSeed
MaxPool == 4        \* SpecPlan: pool values are 1..MaxPool
MaxQueries == 3     \* --n-point-queries / --n-range-queries are at most this
MaxWidth == 3       \* SpecPlan: --range-width is at most this, or 100

\* ------------------------------------------------------------------ state
VARIABLES
    \* exporter (export_ht_to_parquet.py)
    fs,              \* contig -> state of <out>/contig=<name>
    overwrite,       \* args.overwrite
    resume,          \* args.resume
    max_files,       \* args.max_files_per_contig  (<<>> is None, <<k>> is k)
    min_files,       \* args.min_files_per_contig
    run,             \* number of the exporter run (a run's files carry it)
    pc,              \* position of main()
    i,               \* index of the for loop over contigs
    spark_parts,     \* the local spark_parts
    \* history of the current loop iteration
    gated,           \* contig the gate was last applied to
    before,          \* that contig's directory when the gate was entered
    beforeBroken,    \* was it left behind by an interrupted write
    gateResult,      \* "none" | "proceed" | "skip" | "delete" | "fatal"
    natural,         \* spark_parts before any adjustment
    after_coalesce,  \* spark_parts after the coalesce step
    did_coalesce,
    did_widen,
    handed,          \* shard count handed to the writer (<<>>: not yet)
    broken,          \* contigs whose write was interrupted and not redone
    started,         \* fs when the current run began
    gate_log,        \* the gate calls of the current run: [contig, result]
    \* smoke test (polars_parquet_smoketest.py)
    parquet_files,   \* the listed files: [ok, rows], in path order
    n_files,         \* args.sample_files
    n_rows_per_file, \* args.rows_per_file_sample
    seed,            \* args.seed
    rng,             \* state of the generator last created
    spc,             \* position of the smoke test
    sampled_files,   \* indexes into parquet_files, in the order chosen
    cursor,          \* index of the loop over sampled_files
    positions,       \* the local positions of the sampler
    call,            \* SpecSampler: number of the call
    first,           \* SpecSampler: what the first call chose and returned
    n_rows,          \* basic_stats["n_rows"]
    pos_min,
    pos_max,
    n_point_queries, \* args.n_point_queries
    n_range_queries, \* args.n_range_queries
    used_fallback,   \* main took the head(2000) fallback
    candidate_positions_list,
    point_positions,
    range_width,     \* args.range_width
    idxs,            \* indexes into candidate_positions_list, from 0
    range_centers,
    range_windows    \* per centre, in order: [center, start, end]

exportVars == <<fs, overwrite, resume, max_files, min_files, run, pc, i,
                spark_parts, gated, before, beforeBroken, gateResult, natural,
                after_coalesce, did_coalesce, did_widen, handed, broken,
                started, gate_log>>

samplerVars == <<parquet_files, n_files, n_rows_per_file, seed, rng, spc,
                 sampled_files, cursor, positions, call, first>>

runnerVars == <<n_rows, pos_min, pos_max, n_point_queries, n_range_queries,
                used_fallback, candidate_positions_list, point_positions,
                range_width, idxs, range_centers, range_windows>>

rangeVars == <<range_width, idxs, range_centers, range_windows>>

smokeVars == <<samplerVars, runnerVars>>

vars == <<exportVars, smokeVars>>

\* ------------------------------------------------------------ exporter data
\* --contigs chr1,chr2
contigs == <<"chr1", "chr2">>

Contigs == {contigs[k] : k \in 1..Len(contigs)}

\* Optional integer argument: default=None, type=int.
IsSet(a) == a # <<>>
Val(a) == a[1]
OptFileArgs == {<<>>} \cup {<<k>> : k \in 0..MaxFileArg}

\* A contig directory: does it exist, the runs whose part files it holds
\* (0: files from before the first run), and is _SUCCESS in it.
Absent == [exists |-> FALSE, files |-> {}, marker |-> FALSE]
Incomplete == [exists |-> TRUE, files |-> {0}, marker |-> FALSE]
Complete == [exists |-> TRUE, files |-> {0}, marker |-> TRUE]

\* (path / "_SUCCESS").is_file()
_success_file_existsLoose(d) == d.exists
_success_file_exists(d) == d.exists /\ d.marker

\* shutil.rmtree(path) (and the recursive delete of Spark's SaveMode.Overwrite)
rmtreeShallow(d) == [d EXCEPT !.marker = FALSE]
rmtree(d) == Absent

\* The branch _ensure_empty_output_dir takes.
GateOutcomeResumeExcludes(d, ow, rs) ==
    IF ~d.exists THEN "proceed"
    ELSE IF rs /\ _success_file_exists(d) THEN "skip"
    ELSE IF ow /\ ~rs THEN "delete"
    ELSE "fatal"
GateOutcomeOverwriteFirst(d, ow, rs) ==
    IF ~d.exists THEN "proceed"
    ELSE IF ow THEN "delete"
    ELSE IF rs /\ _success_file_exists(d) THEN "skip"
    ELSE "fatal"
GateOutcome(d, ow, rs) ==
    IF ~d.exists THEN "proceed"
    ELSE IF rs /\ _success_file_exists(d) THEN "skip"
    ELSE IF ow THEN "delete"
    ELSE "fatal"

\* What that branch does to the directory.
GateEffectEager(d, r) == IF r \in {"delete", "fatal"} THEN rmtree(d) ELSE d
GateEffect(d, r) == IF r = "delete" THEN rmtree(d) ELSE d

\* df.coalesce(k).rdd.getNumPartitions(): never more partitions than before.
coalesceKeep(parts, k) == parts
coalesce(parts, k) == IF k < parts THEN k ELSE parts

\* df.repartitionByRange(k, "position").rdd.getNumPartitions()
repartitionByRange(parts, k) == k

\* The two guards of the partition-count adjuster.
CoalesceFires(parts, mx) == IsSet(mx) /\ parts > Val(mx)
WidenFiresStale(parts, mn) == IsSet(mn) /\ natural < Val(mn)
WidenFires(parts, mn) == IsSet(mn) /\ parts < Val(mn)

\* df.write.mode("overwrite"): the target is emptied before the job writes.
SaveModeOverwrite(d) == [rmtree(d) EXCEPT !.exists = TRUE]

\* ------------------------------------------------------------ exporter init
StartExport ==
    /\ fs \in [Contigs -> {Absent, Incomplete, Complete}]
    /\ overwrite \in BOOLEAN
    /\ resume \in BOOLEAN
    /\ max_files \in OptFileArgs
    /\ min_files \in OptFileArgs
    /\ run = 1
    /\ pc = "loop"
    /\ i = 1
    /\ spark_parts = 0
    /\ gated = contigs[1]
    /\ before = Absent
    /\ beforeBroken = FALSE
    /\ gateResult = "none"
    /\ natural = 0
    /\ after_coalesce = 0
    /\ did_coalesce = FALSE
    /\ did_widen = FALSE
    /\ handed = <<>>
    /\ broken = {}
    /\ started = fs
    /\ gate_log = <<>>

\* The exporter is not running.
IdleExport ==
    /\ fs = [c \in Contigs |-> Absent]
    /\ overwrite = FALSE
    /\ resume = FALSE
    /\ max_files = <<>>
    /\ min_files = <<>>
    /\ run = 0
    /\ pc = "idle"
    /\ i = 1
    /\ spark_parts = 0
    /\ gated = contigs[1]
    /\ before = Absent
    /\ beforeBroken = FALSE
    /\ gateResult = "none"
    /\ natural = 0
    /\ after_coalesce = 0
    /\ did_coalesce = FALSE
    /\ did_widen = FALSE
    /\ handed = <<>>
    /\ broken = {}
    /\ started = fs
    /\ gate_log = <<>>

iterVars == <<natural, after_coalesce, did_coalesce, did_widen, handed>>
argVars == <<overwrite, resume, max_files, min_files, run, started>>
gateVars == <<gated, before, beforeBroken, gateResult, gate_log>>

\* ---------------------------------------------------------- exporter steps
\* for contig in contigs: if not _ensure_empty_output_dir(...): continue
EnsureEmptyOutputDir ==
    /\ pc = "loop"
    /\ i <= Len(contigs)
    /\ LET c == contigs[i]
           d == fs[c]
           r == GateOutcome(d, overwrite, resume)
       IN  /\ gated' = c
           /\ before' = d
           /\ beforeBroken' = (c \in broken)
           /\ gateResult' = r
           /\ gate_log' = Append(gate_log, [contig |-> c, result |-> r])
           /\ fs' = [fs EXCEPT ![c] = GateEffect(d, r)]
           /\ broken' = IF fs'[c].exists THEN broken ELSE broken \ {c}
           /\ pc' = CASE r = "skip" -> "loop"
                      [] r = "fatal" -> "failed"
                      [] OTHER -> "export"
           /\ i' = IF r = "skip" THEN i + 1 ELSE i
    /\ natural' = 0
    /\ after_coalesce' = 0
    /\ did_coalesce' = FALSE
    /\ did_widen' = FALSE
    /\ handed' = <<>>
    /\ UNCHANGED <<argVars, spark_parts>>

\* df = ht_flat.to_spark(); spark_parts = df.rdd.getNumPartitions()
ToSpark ==
    /\ pc = "export"
    /\ \E n \in 0..MaxParts :
        /\ spark_parts' = n
        /\ natural' = n
    /\ pc' = "coalesce"
    /\ UNCHANGED <<fs, argVars, i, gateVars, after_coalesce, did_coalesce,
                   did_widen, handed, broken>>

\* if max_files_per_contig is not None and spark_parts > max_files_per_contig
\* (Spark rejects coalesce(k) for k < 1: the exception ends the run)
CoalesceStep ==
    /\ pc = "coalesce"
    /\ IF CoalesceFires(spark_parts, max_files)
       THEN IF Val(max_files) < 1
            THEN /\ pc' = "crashed"
                 /\ UNCHANGED <<spark_parts, after_coalesce, did_coalesce>>
            ELSE /\ spark_parts' = coalesce(spark_parts, Val(max_files))
                 /\ after_coalesce' = spark_parts'
                 /\ did_coalesce' = TRUE
                 /\ pc' = "widen"
       ELSE /\ after_coalesce' = spark_parts
            /\ pc' = "widen"
            /\ UNCHANGED <<spark_parts, did_coalesce>>
    /\ UNCHANGED <<fs, argVars, i, gateVars, natural, did_widen, handed, broken>>

\* if min_files_per_contig is not None and spark_parts < min_files_per_contig
WidenStep ==
    /\ pc = "widen"
    /\ IF WidenFires(spark_parts, min_files)
       THEN /\ spark_parts' = repartitionByRange(spark_parts, Val(min_files))
            /\ did_widen' = TRUE
       ELSE UNCHANGED <<spark_parts, did_widen>>
    /\ handed' = <<spark_parts'>>
    /\ pc' = "write"
    /\ UNCHANGED <<fs, argVars, i, gateVars, natural, after_coalesce,
                   did_coalesce, broken>>

\* writer.parquet(str(out_contig_dir)): the job starts, the target is emptied
WriteBegin ==
    /\ pc = "write"
    /\ fs' = [fs EXCEPT ![gated] = SaveModeOverwrite(fs[gated])]
    /\ pc' = "writing"
    /\ UNCHANGED <<argVars, i, spark_parts, gateVars, iterVars, broken>>

\* ... the part files of this run appear
WriteParts ==
    /\ pc = "writing"
    /\ fs' = [fs EXCEPT ![gated].files = @ \cup {run}]
    /\ pc' = "commit"
    /\ UNCHANGED <<argVars, i, spark_parts, gateVars, iterVars, broken>>

\* ... the job commits: _SUCCESS is written last; print("Wrote: ...")
WriteCommit ==
    /\ pc = "commit"
    /\ fs' = [fs EXCEPT ![gated].marker = TRUE]
    /\ broken' = broken \ {gated}
    /\ pc' = "loop"
    /\ i' = i + 1
    /\ UNCHANGED <<argVars, spark_parts, gateVars, iterVars>>

\* print("Done."); return 0
Finish ==
    /\ pc = "loop"
    /\ i > Len(contigs)
    /\ pc' = "done"
    /\ UNCHANGED <<fs, argVars, i, spark_parts, gateVars, iterVars, broken>>

\* The run is interrupted (killed, or an engine call raises) while the
\* contig is being exported; whatever is on disk stays.
Interrupt ==
    /\ pc \in {"export", "write", "writing", "commit"}
    /\ broken' = IF fs[gated].exists /\ ~fs[gated].marker
                 THEN broken \cup {gated} ELSE broken
    /\ pc' = "crashed"
    /\ UNCHANGED <<fs, argVars, i, spark_parts, gateVars, iterVars>>

\* The exporter is started again, with any flags.
Rerun ==
    /\ pc \in {"done", "failed", "crashed"}
    /\ run < MaxRuns
    /\ run' = run + 1
    /\ overwrite' \in BOOLEAN
    /\ resume' \in BOOLEAN
    /\ max_files' \in OptFileArgs
    /\ min_files' \in OptFileArgs
    /\ pc' = "loop"
    /\ i' = 1
    /\ gateResult' = "none"
    /\ gate_log' = <<>>
    /\ started' = fs
    /\ handed' = <<>>
    /\ UNCHANGED <<fs, spark_parts, gated, before, beforeBroken, natural,
                   after_coalesce, did_coalesce, did_widen, broken>>

\* ---------------------------------------------------------- smoke test data
\* A missing position (None); positions are 1..MaxPos.
None == 0

\* lf_contig.select("position").head(2000)
HeadRows == 2000

Min(a, b) == IF a < b THEN a ELSE b
Max(a, b) == IF a > b THEN a ELSE b
Range(q) == {q[j] : j \in 1..Len(q)}
SetMin(S) == CHOOSE x \in S : \A y \in S : x <= y
SetMax(S) == CHOOSE x \in S : \A y \in S : x >= y

\* sorted(S)
RECURSIVE sorted(_)
sorted(S) == IF S = {} THEN <<>> ELSE <<SetMin(S)>> \o sorted(S \ {SetMin(S)})

\* q[:n]
TakeAll(q, n) == q
Take(q, n) == SubSeq(q, 1, Min(Max(n, 0), Len(q)))

\* [x for x in q if x is not None]
NonNullKeep(q) == q
NonNull(q) == SelectSeq(q, LAMBDA x : x # None)

\* A listed file: can pl.read_parquet read it, and its position column.  A
\* file that cannot be read contributes no rows to the scan either.
Unreadable == [ok |-> FALSE, rows |-> <<>>]
FilesUpTo(b) ==
    {[ok |-> TRUE, rows |-> r] : r \in UNION {[1..n -> 0..MaxPos] : n \in 0..b}}
        \cup {Unreadable}

\* The listings of n files that hold at most b rows together.
RECURSIVE FileLists(_, _)
FileLists(n, b) ==
    IF n = 0 THEN {<<>>}
    ELSE UNION {{<<f>> \o rest : rest \in FileLists(n - 1, b - Len(f.rows))} :
                f \in FilesUpTo(b)}
AllFileLists == UNION {FileLists(n, MaxRows) : n \in 0..MaxListed}

\* The rows of the contig, as the lazy scan sees them.
RECURSIVE AllRows(_)
AllRows(files) ==
    IF files = <<>> THEN <<>> ELSE Head(files).rows \o AllRows(Tail(files))

\* random.Random(seed): a generator in the state the seed fixes; every draw
\* advances it.
NextRng(s) == (13 * s + 7) % 64
RandBelow(s, n) == (s \div 4) % n
RandomUnseeded(sd) == rng
Random(sd) == sd % 64

\* The listed paths, by their place in the listing.
Paths(files) == <<>> \o [path \in 1..Len(files) |-> path]

\* rng.sample(population, k): k draws from a shrinking pool.
RECURSIVE RngSample(_, _, _)
RngSample(pool, k, s) ==
    IF k = 0 THEN [out |-> <<>>, rng |-> s]
    ELSE LET n == Len(pool)
             s1 == NextRng(s)
             j == RandBelow(s1, n) + 1
             pool2 == SubSeq([pool EXCEPT ![j] = pool[n]], 1, n - 1)
             rest == RngSample(pool2, k - 1, s1)
         IN  [out |-> <<pool[j]>> \o rest.out, rng |-> rest.rng]

\* rng.shuffle(x): for i in reversed(range(1, len(x))): swap x[i], x[randbelow(i+1)]
RECURSIVE ShuffleFrom(_, _, _)
ShuffleFrom(x, n, s) ==
    IF n < 1 THEN [out |-> x, rng |-> s]
    ELSE LET s1 == NextRng(s)
             j == RandBelow(s1, n + 1)
         IN  ShuffleFrom([x EXCEPT ![n + 1] = x[j + 1], ![j + 1] = x[n + 1]],
                         n - 1, s1)
Shuffle(x, s) == ShuffleFrom(x, Len(x) - 1, s)

\* pl.read_parquet(path, columns=["position"], n_rows=n_rows_per_file)
ReadParquet(f, n) == Take(f.rows, n)

\* ---------------------------------------------------------- smoke test init
SampleInputs ==
    /\ parquet_files \in AllFileLists
    /\ n_files \in 0..MaxListed
    /\ n_rows_per_file \in 0..MaxRows
    /\ seed \in 0..MaxSeed

IdleSamplerLocals ==
    /\ rng = 0
    /\ sampled_files = <<>>
    /\ cursor = 1
    /\ positions = <<>>
    /\ first = [files |-> <<>>, positions |-> <<>>]

IdleRunner ==
    /\ n_rows = 0
    /\ pos_min = None
    /\ pos_max = None
    /\ n_point_queries = 0
    /\ n_range_queries = 0
    /\ used_fallback = FALSE
    /\ candidate_positions_list = <<>>
    /\ point_positions = <<>>
    /\ range_width = 0
    /\ idxs = <<>>
    /\ range_centers = <<>>
    /\ range_windows = <<>>

\* The smoke test is not running.
IdleSmoke ==
    /\ parquet_files = <<>>
    /\ n_files = 0
    /\ n_rows_per_file = 0
    /\ seed = 0
    /\ spc = "idle"
    /\ call = 0
    /\ IdleSamplerLocals
    /\ IdleRunner

StartSampler ==
    /\ SampleInputs
    /\ spc = "call"
    /\ call = 1
    /\ IdleSamplerLocals
    /\ IdleRunner

StartRunner ==
    /\ SampleInputs
    /\ spc = "stats"
    /\ call = 0
    /\ IdleSamplerLocals
    /\ IdleRunner

\* main() run through to the queries: every listed file is sampled, one row
\* of each; the width is 1 or MaxWidth.
StartQuery ==
    /\ parquet_files \in AllFileLists
    /\ n_files = MaxListed
    /\ n_rows_per_file = 1
    /\ seed \in 0..MaxSeed
    /\ range_width \in {1, MaxWidth}
    /\ spc = "stats"
    /\ call = 0
    /\ IdleSamplerLocals
    /\ n_rows = 0
    /\ pos_min = None
    /\ pos_max = None
    /\ n_point_queries = 0
    /\ n_range_queries = 0
    /\ used_fallback = FALSE
    /\ candidate_positions_list = <<>>
    /\ point_positions = <<>>
    /\ idxs = <<>>
    /\ range_centers = <<>>
    /\ range_windows = <<>>

\* -------------------------------- _sample_existing_positions_from_files
\* if not parquet_files: return []; otherwise seed the generator and choose
\* min(n_files, len(parquet_files)) files.
SamplerEnter ==
    /\ spc = "call"
    /\ IF parquet_files = <<>>
       THEN /\ sampled_files' = <<>>
            /\ spc' = "return"
            /\ UNCHANGED rng
       ELSE LET n == Min(n_files, Len(parquet_files))
                r == RngSample(Paths(parquet_files), n,
                               Random(seed))
            IN  /\ sampled_files' = r.out
                /\ rng' = r.rng
                /\ spc' = "read"
    /\ positions' = <<>>
    /\ cursor' = 1
    /\ UNCHANGED <<parquet_files, n_files, n_rows_per_file, seed, call, first,
                   runnerVars>>

\* A variant of the loop body that gives up at the first unreadable file.
SamplerReadFileAbort ==
    /\ spc = "read"
    /\ cursor <= Len(sampled_files)
    /\ LET f == parquet_files[sampled_files[cursor]]
       IN  IF ~f.ok
           THEN /\ spc' = "return"
                /\ UNCHANGED <<positions, cursor>>
           ELSE /\ positions' = positions \o NonNull(ReadParquet(f, n_rows_per_file))
                /\ cursor' = cursor + 1
                /\ UNCHANGED spc
    /\ UNCHANGED <<parquet_files, n_files, n_rows_per_file, seed, rng,
                   sampled_files, call, first, runnerVars>>

\* for path in sampled_files: one pass of the loop body
SamplerReadFile ==
    /\ spc = "read"
    /\ cursor <= Len(sampled_files)
    /\ LET f == parquet_files[sampled_files[cursor]]
       IN  IF ~f.ok
           THEN UNCHANGED positions
           ELSE LET df == ReadParquet(f, n_rows_per_file)
                IN  IF df = <<>>
                    THEN UNCHANGED positions
                    ELSE positions' = positions \o NonNull(df)
    /\ cursor' = cursor + 1
    /\ UNCHANGED <<parquet_files, n_files, n_rows_per_file, seed, rng, spc,
                   sampled_files, call, first, runnerVars>>

\* return positions
SamplerReturn ==
    /\ spc = "read"
    /\ cursor > Len(sampled_files)
    /\ spc' = "return"
    /\ UNCHANGED <<parquet_files, n_files, n_rows_per_file, seed, rng,
                   sampled_files, cursor, positions, call, first, runnerVars>>

\* The same call is made a second time.
CallAgain ==
    /\ spc = "return"
    /\ call = 1
    /\ first' = [files |-> sampled_files, positions |-> positions]
    /\ call' = 2
    /\ spc' = "call"
    /\ UNCHANGED <<parquet_files, n_files, n_rows_per_file, seed, rng,
                   sampled_files, cursor, positions, runnerVars>>

CallsDone ==
    /\ spc = "return"
    /\ call = 2
    /\ spc' = "done"
    /\ UNCHANGED <<parquet_files, n_files, n_rows_per_file, seed, rng,
                   sampled_files, cursor, positions, call, first, runnerVars>>

\* ------------------------------------------------------- smoke test main
\* basic_stats: n_rows, min and max of position over the contig
BasicStats ==
    /\ spc = "stats"
    /\ LET rows == AllRows(parquet_files)
           known == Range(NonNull(rows))
       IN  /\ n_rows' = Len(rows)
           /\ IF Len(rows) = 0 \/ known = {}
              THEN /\ spc' = "exit_no_rows"
                   /\ UNCHANGED <<pos_min, pos_max>>
              ELSE /\ pos_min' = SetMin(known)
                   /\ pos_max' = SetMax(known)
                   /\ spc' = "call"
    /\ UNCHANGED <<parquet_files, n_files, n_rows_per_file, seed, rng,
                   sampled_files, cursor, positions, call, first,
                   n_point_queries, n_range_queries, used_fallback,
                   candidate_positions_list, point_positions, rangeVars>>

\* candidate_positions = {pos_min, pos_max}
SeedCandidatesNone(lo, hi) == {}
SeedCandidates(lo, hi) == {lo, hi}

\* if not candidate_positions_list: raise SystemExit(...)
NoPositionsSampled(all, sampled) == sampled = <<>>
NoPositions(all, sampled) == all = {}

\* candidate_positions: min, max, the sampled positions in range and, when
\* these are too few, the head of the contig scan; sorted; SystemExit when
\* empty.
Candidates ==
    /\ spc = "return"
    /\ \E kp \in 0..MaxQueries, kr \in 0..MaxQueries :
        LET sampled == SeedCandidates(pos_min, pos_max) \cup
                          {q \in Range(positions) : pos_min <= q /\ q <= pos_max}
            fallback == Cardinality(sampled) < Max(3, Max(kp, kr))
            head == Range(NonNull(Take(AllRows(parquet_files), HeadRows)))
            all == IF fallback THEN sampled \cup head ELSE sampled
        IN  /\ n_point_queries' = kp
            /\ n_range_queries' = kr
            /\ used_fallback' = fallback
            /\ candidate_positions_list' = sorted(all)
            /\ spc' = IF NoPositions(all, positions)
                      THEN "exit_no_positions" ELSE "plan"
    /\ UNCHANGED <<parquet_files, n_files, n_rows_per_file, seed, rng,
                   sampled_files, cursor, positions, call, first, n_rows,
                   pos_min, pos_max, point_positions, rangeVars>>


\* ------------------------------------------------------- query plan builder
\* The positions of a contig's rows: 1..MaxPool, or the hundreds 100..500.
ScenarioPositions == {100, 200, 300, 400, 500}
PositionSets == {1..MaxPool, ScenarioPositions}

\* --range-width
Widths == ((0 - 1)..MaxWidth) \cup {100}

\* main() at the head of the query plan: pos_min and pos_max are the least and
\* the greatest position of the contig, the pool is sorted, holds pos_min,
\* pos_max and any positions between them, and is not empty.
StartPlan ==
    /\ \E P \in PositionSets :
         \E lo \in P :
           \E hi \in {q \in P : q >= lo} :
             \E S \in SUBSET {q \in P : lo <= q /\ q <= hi} :
                /\ pos_min = lo
                /\ pos_max = hi
                /\ candidate_positions_list = sorted(SeedCandidates(lo, hi) \cup S)
    /\ candidate_positions_list # <<>>
    /\ n_point_queries \in (0 - 1)..MaxQueries
    /\ n_range_queries \in (0 - 1)..MaxQueries
    /\ range_width \in Widths
    /\ seed \in 0..MaxSeed
    /\ spc = "plan"
    /\ parquet_files = <<>>
    /\ n_files = 0
    /\ n_rows_per_file = 0
    /\ call = 0
    /\ IdleSamplerLocals
    /\ n_rows = Len(candidate_positions_list)
    /\ used_fallback = FALSE
    /\ point_positions = <<>>
    /\ idxs = <<>>
    /\ range_centers = <<>>
    /\ range_windows = <<>>

\* point_positions = [pos_min]; if pos_max != pos_min: append(pos_max)
FirstPointsMinOnly(lo, hi) == <<lo>>
FirstPoints(lo, hi) == IF hi # lo THEN <<lo, hi>> ELSE <<lo>>

\* n_point_queries = max(0, int(args.n_point_queries)); the point positions
BuildPoints ==
    /\ spc = "plan"
    /\ LET k == Max(0, n_point_queries)
       IN  IF k > 0
           THEN LET chosen == FirstPoints(pos_min, pos_max)
                    remaining == SelectSeq(candidate_positions_list,
                                           LAMBDA q : q \notin Range(chosen))
                    sh == Shuffle(remaining, Random(seed))
                    extended == chosen \o Take(sh.out, Max(0, k - Len(chosen)))
                IN  /\ rng' = sh.rng
                    /\ point_positions' = Take(sorted(Range(extended)), k)
           ELSE /\ point_positions' = <<>>
                /\ UNCHANGED rng
    /\ spc' = "points"
    /\ UNCHANGED <<parquet_files, n_files, n_rows_per_file, seed,
                   sampled_files, cursor, positions, call, first, n_rows,
                   pos_min, pos_max, n_point_queries, n_range_queries,
                   used_fallback, candidate_positions_list, rangeVars>>

\* round(num / den) for num >= 0 and den >= 1: the nearest integer, a tie
\* going to the even one.
roundDown(num, den) == num \div den
round(num, den) ==
    LET q == num \div den
        r == num % den
    IN  IF 2 * r < den THEN q
        ELSE IF 2 * r > den THEN q + 1
        ELSE IF q % 2 = 0 THEN q ELSE q + 1

\* idxs = [round(i * (len(pool) - 1) / max(1, k - 1)) for i in range(k)]
IdxsOverK(L, k) ==
    <<>> \o [j \in 1..k |-> round((j - 1) * (L - 1), Max(1, k))]
Idxs(L, k) ==
    <<>> \o [j \in 1..k |-> round((j - 1) * (L - 1), Max(1, k - 1))]

\* start = max(pos_min, center - range_width // 2)
\* end = min(pos_max, start + range_width - 1)
\* start = max(pos_min, min(start, end))
WindowUnclipped(center, w, lo, hi) ==
    LET start0 == center - (w \div 2)
        end == start0 + w - 1
    IN  [center |-> center, start |-> start0, end |-> end]
Window(center, w, lo, hi) ==
    LET start0 == Max(lo, center - (w \div 2))
        end == Min(hi, start0 + w - 1)
        start == Max(lo, Min(start0, end))
    IN  [center |-> center, start |-> start, end |-> end]

\* n_range_queries = max(0, int(args.n_range_queries)); the range centres and
\* the window of each
BuildRanges ==
    /\ spc = "points"
    /\ LET k == Max(0, n_range_queries)
           w == Max(1, range_width)
           ix == Idxs(Len(candidate_positions_list), k)
           centers == <<>> \o [j \in 1..k |-> candidate_positions_list[ix[j] + 1]]
       IN  IF k > 0
           THEN /\ idxs' = ix
                /\ range_centers' = centers
                /\ range_windows' =
                      <<>> \o [j \in 1..k |-> Window(centers[j], w, pos_min, pos_max)]
           ELSE UNCHANGED <<idxs, range_centers, range_windows>>
    /\ spc' = "ranges"
    /\ UNCHANGED <<parquet_files, n_files, n_rows_per_file, seed, rng,
                   sampled_files, cursor, positions, call, first, n_rows,
                   pos_min, pos_max, n_point_queries, n_range_queries,
                   used_fallback, candidate_positions_list, point_positions,
                   range_width>>

\* ------------------------------------------------------------------ specs
InitExport == IdleSmoke /\ StartExport

NextExport ==
    \/ EnsureEmptyOutputDir /\ UNCHANGED smokeVars
    \/ ToSpark /\ UNCHANGED smokeVars
    \/ CoalesceStep /\ UNCHANGED smokeVars
    \/ WidenStep /\ UNCHANGED smokeVars
    \/ WriteBegin /\ UNCHANGED smokeVars
    \/ WriteParts /\ UNCHANGED smokeVars
    \/ WriteCommit /\ UNCHANGED smokeVars
    \/ Finish /\ UNCHANGED smokeVars
    \/ Interrupt /\ UNCHANGED smokeVars
    \/ Rerun /\ UNCHANGED smokeVars

SpecExport == InitExport /\ [][NextExport]_vars

\* One run with --resume and --overwrite both set.
InitResume == IdleSmoke /\ StartExport /\ resume /\ overwrite

\* The statements of main(), each of which runs once the one before it has
\* returned.
StepsResume ==
    \/ EnsureEmptyOutputDir /\ UNCHANGED smokeVars
    \/ ToSpark /\ UNCHANGED smokeVars
    \/ CoalesceStep /\ UNCHANGED smokeVars
    \/ WidenStep /\ UNCHANGED smokeVars
    \/ WriteBegin /\ UNCHANGED smokeVars
    \/ WriteParts /\ UNCHANGED smokeVars
    \/ WriteCommit /\ UNCHANGED smokeVars
    \/ Finish /\ UNCHANGED smokeVars

NextResume ==
    \/ StepsResume
    \/ Interrupt /\ UNCHANGED smokeVars

SpecResume == InitResume /\ [][NextResume]_vars /\ WF_vars(StepsResume)

InitSampler == IdleExport /\ StartSampler

NextSampler ==
    \/ SamplerEnter /\ UNCHANGED exportVars
    \/ SamplerReadFile /\ UNCHANGED exportVars
    \/ SamplerReturn /\ UNCHANGED exportVars
    \/ CallAgain /\ UNCHANGED exportVars
    \/ CallsDone /\ UNCHANGED exportVars

SpecSampler == InitSampler /\ [][NextSampler]_vars

InitRunner == IdleExport /\ StartRunner

NextRunner ==
    \/ BasicStats /\ UNCHANGED exportVars
    \/ SamplerEnter /\ UNCHANGED exportVars
    \/ SamplerReadFile /\ UNCHANGED exportVars
    \/ SamplerReturn /\ UNCHANGED exportVars
    \/ Candidates /\ UNCHANGED exportVars

SpecRunner == InitRunner /\ [][NextRunner]_vars

InitQuery == IdleExport /\ StartQuery

NextQuery ==
    \/ BasicStats /\ UNCHANGED exportVars
    \/ SamplerEnter /\ UNCHANGED exportVars
    \/ SamplerReadFile /\ UNCHANGED exportVars
    \/ SamplerReturn /\ UNCHANGED exportVars
    \/ Candidates /\ UNCHANGED exportVars
    \/ BuildPoints /\ UNCHANGED exportVars
    \/ BuildRanges /\ UNCHANGED exportVars

SpecQuery == InitQuery /\ [][NextQuery]_vars

InitPlan == IdleExport /\ StartPlan

NextPlan ==
    \/ BuildPoints /\ UNCHANGED exportVars
    \/ BuildRanges /\ UNCHANGED exportVars

SpecPlan == InitPlan /\ [][NextPlan]_vars

\* ------------------------------------------------------------------ claims
\* The iteration that gated contig `gated` has finished its write.
Written == gateResult \in {"proceed", "delete"} /\ pc \in {"loop", "done"}

\* C1: the gate proceeds on an absent path; otherwise skips when resume is set
\* and the marker exists; otherwise deletes and proceeds when overwrite is set;
\* otherwise ends in the fatal error (so a directory without marker, with
\* resume and without overwrite, is fatal).
C1_GateDecisionTable ==
    gateResult # "none" =>
        /\ ~before.exists => gateResult = "proceed"
        /\ before.exists /\ resume /\ before.marker => gateResult = "skip"
        /\ before.exists /\ ~(resume /\ before.marker) /\ overwrite
              => gateResult = "delete"
        /\ before.exists /\ ~(resume /\ before.marker) /\ ~overwrite
              => gateResult = "fatal"
        /\ gateResult = "fatal" => pc = "failed"
        /\ gateResult = "skip" => pc \in {"loop", "done"}
        /\ gateResult \in {"proceed", "delete"} /\ pc = "export"
              => ~fs[gated].exists
C1_Witness ==
    /\ gateResult = "fatal"
    /\ resume /\ ~overwrite
    /\ before.exists /\ ~before.marker

\* C2: the gate leaves the directory as it found it whenever it skips or
\* raises; a directory with the marker, gated with resume set, is skipped and
\* unchanged in every run, also when overwrite is set.
C2_GateFrame ==
    /\ gateResult \in {"skip", "fatal"} => fs[gated] = before
    /\ gateResult # "none" /\ resume /\ before.exists /\ before.marker
          => gateResult = "skip" /\ fs[gated] = before
C2_Witness ==
    /\ run = MaxRuns
    /\ gated = contigs[1]
    /\ gateResult = "skip"
    /\ overwrite /\ resume
    /\ before = Complete

\* C3: a directory left behind by an interrupted write exists without marker
\* and is never skipped by a later gate: it is deleted when overwrite is set
\* and the run fails fatally otherwise.
C3_InterruptedNeverSkipped ==
    /\ \A c \in broken : fs[c].exists /\ ~fs[c].marker
    /\ gateResult # "none" /\ beforeBroken =>
          /\ before.exists /\ ~before.marker
          /\ gateResult # "skip"
          /\ overwrite => gateResult = "delete"
          /\ ~overwrite => gateResult = "fatal"
C3_Witness ==
    /\ beforeBroken
    /\ resume /\ ~overwrite
    /\ gateResult = "fatal"
    /\ before.files # {}

\* C4: after a write through the overwrite path the directory holds only the
\* files of that write, none of the files it held before the gate.
C4_OverwriteOnlyFresh ==
    gateResult = "delete" /\ Written =>
        /\ fs[gated].files = {run}
        /\ fs[gated].files \cap before.files = {}
C4_Witness ==
    /\ gateResult = "delete"
    /\ Written
    /\ before.files # {}
    /\ fs[gated].marker

\* C5: coalesce runs only when the natural count exceeds max_files and never
\* raises the count; widen runs only when the count after coalesce is below
\* min_files and never lowers it; with min_files set the final count is at
\* least min_files.
C5_AdjusterBounds ==
    IsSet(handed) =>
        /\ did_coalesce => IsSet(max_files) /\ natural > Val(max_files)
        /\ ~did_coalesce => after_coalesce = natural
        /\ after_coalesce <= natural
        /\ did_widen => IsSet(min_files) /\ after_coalesce < Val(min_files)
        /\ ~did_widen => Val(handed) = after_coalesce
        /\ Val(handed) >= after_coalesce
        /\ IsSet(min_files) => Val(handed) >= Val(min_files)
C5_Witness ==
    /\ IsSet(handed)
    /\ did_coalesce
    /\ did_widen

C7_ZeroSampleIsFatal ==
    spc \in {"plan", "exit_no_positions"} /\ positions = <<>>
        => spc = "exit_no_positions"

\* C7 amended: when sampling yields no position the runner does not fail: the
\* pool still holds pos_min and pos_max and the positions of the head-of-scan
\* fallback, and the runner goes on to build queries.
C7_ZeroSampleStillPlans ==
    spc \in {"plan", "exit_no_positions"} /\ positions = <<>> =>
        /\ spc = "plan"
        /\ used_fallback
        /\ candidate_positions_list # <<>>
        /\ Range(candidate_positions_list) =
              {pos_min, pos_max} \cup Range(NonNull(AllRows(parquet_files)))
C7_Witness ==
    /\ spc = "plan"
    /\ positions = <<>>
    /\ sampled_files # <<>>
    /\ n_rows_per_file >= 1

\* What a chosen file adds to the result: nothing when it cannot be read,
\* otherwise the non-null positions among its first n_rows_per_file rows.
Contribution(f) ==
    IF f.ok
    THEN SelectSeq(SubSeq(f.rows, 1, Min(n_rows_per_file, Len(f.rows))),
                   LAMBDA x : x # None)
    ELSE <<>>
RECURSIVE ConcatChosen(_)
ConcatChosen(chosen) ==
    IF chosen = <<>> THEN <<>>
    ELSE Contribution(parquet_files[Head(chosen)]) \o ConcatChosen(Tail(chosen))

\* C8: a chosen file that cannot be read is skipped: the sampler visits every
\* chosen file and returns the concatenation, in the order chosen, of the
\* non-null positions among the first n_rows_per_file rows of the readable
\* ones.
C8_SkipUnreadable ==
    /\ spc = "read" =>
          /\ cursor <= Len(sampled_files) + 1
          /\ positions = ConcatChosen(SubSeq(sampled_files, 1, cursor - 1))
    /\ spc \in {"return", "done"} => positions = ConcatChosen(sampled_files)
C8_Witness ==
    /\ spc = "return"
    /\ Len(sampled_files) = 2
    /\ ~parquet_files[sampled_files[1]].ok
    /\ positions # <<>>

\* C9: two calls with the same files, n_files, n_rows_per_file and seed choose
\* the same min(n_files, len(files)) distinct files in the same order and
\* return the same positions.
C9_Deterministic ==
    /\ spc \in {"read", "return", "done"} =>
          /\ Len(sampled_files) = Min(n_files, Len(parquet_files))
          /\ Range(sampled_files) \subseteq 1..Len(parquet_files)
          /\ Cardinality(Range(sampled_files)) = Len(sampled_files)
    /\ call = 2 /\ spc \in {"read", "return", "done"} =>
          sampled_files = first.files
    /\ call = 2 /\ spc \in {"return", "done"} => positions = first.positions
C9_Witness ==
    /\ spc = "done"
    /\ Len(parquet_files) = 2
    /\ n_files = 1
    /\ sampled_files = <<2>>
    /\ positions # <<>>

\* C10 as stated: for k_p >= 1 the point positions contain the pool minimum,
\* and the pool maximum whenever it differs from the minimum.
C10_MinAndMaxSelected ==
    spc = "points" /\ n_point_queries >= 1 =>
        /\ pos_min \in Range(point_positions)
        /\ pos_max # pos_min => pos_max \in Range(point_positions)

\* C10 amended: for k_p >= 1 the point positions contain the pool minimum, and
\* for k_p >= 2 the pool maximum as well; for k_p = 1 they are the minimum
\* alone.
C10_MinAlwaysMaxFromTwo ==
    spc = "points" /\ n_point_queries >= 1 =>
        /\ pos_min = candidate_positions_list[1]
        /\ pos_max = candidate_positions_list[Len(candidate_positions_list)]
        /\ pos_min \in Range(point_positions)
        /\ n_point_queries >= 2 => pos_max \in Range(point_positions)
        /\ n_point_queries = 1 => point_positions = <<pos_min>>
C10_Witness ==
    /\ spc = "points"
    /\ n_point_queries = 3
    /\ Len(candidate_positions_list) = 4
    /\ Len(point_positions) = 3
    /\ pos_max \in Range(point_positions)

\* C11: for every non-empty pool, every k_p and every seed, each selected
\* point position is a member of the pool and lies between the least and the
\* greatest entry of the pool, which are pos_min and pos_max.
C11_PointsFromPool ==
    spc \in {"points", "ranges"} /\ candidate_positions_list # <<>> =>
        \A j \in 1..Len(point_positions) :
            /\ point_positions[j] \in Range(candidate_positions_list)
            /\ candidate_positions_list[1] <= point_positions[j]
            /\ point_positions[j] <= candidate_positions_list[Len(candidate_positions_list)]
            /\ pos_min <= point_positions[j]
            /\ point_positions[j] <= pos_max
C11_Witness ==
    /\ spc = "points"
    /\ seed = 1
    /\ Len(point_positions) = 3
    /\ \E j \in 1..3 : point_positions[j] \notin {pos_min, pos_max}

\* C12: for every pool, every centre taken from it and every requested width
\* (a width below 1 counting as 1), the window built for the centre has
\* start <= end, pool_min <= start, end <= pool_max and at most width
\* positions.
C12_WindowInBounds ==
    spc = "ranges" =>
        \A j \in 1..Len(range_windows) :
            LET win == range_windows[j]
            IN  /\ win.center \in Range(candidate_positions_list)
                /\ win.start <= win.end
                /\ pos_min <= win.start
                /\ candidate_positions_list[1] <= win.start
                /\ win.end <= pos_max
                /\ win.end <= candidate_positions_list[Len(candidate_positions_list)]
                /\ win.end - win.start + 1 <= Max(1, range_width)
C12_Witness ==
    /\ spc = "ranges"
    /\ range_width = 3
    /\ Len(range_windows) = 3
    /\ range_windows[1].start = pos_min
    /\ range_windows[1].end - range_windows[1].start + 1 = 3
    /\ range_windows[3].center = pos_max
    /\ range_windows[3].end = pos_max
    /\ range_windows[3].end - range_windows[3].start + 1 = 2

\* The positions of the rows of the contig.
RealRows == {x \in Range(AllRows(parquet_files)) : x # None}

\* C13: every constructed query overlaps a real row: each point position is
\* the position of a row of the dataset, and each range window contains its
\* centre, which is the position of a row, for every width >= 1, also when the
\* window is clipped at pos_min or pos_max.
C13_QueriesHitRows ==
    /\ spc \in {"plan", "points", "ranges"} =>
          Range(candidate_positions_list) \subseteq RealRows
    /\ spc \in {"points", "ranges"} =>
          Range(point_positions) \subseteq RealRows
    /\ spc = "ranges" =>
          /\ Len(range_windows) = Len(range_centers)
          /\ \A j \in 1..Len(range_windows) :
                /\ range_windows[j].center = range_centers[j]
                /\ range_centers[j] \in RealRows
                /\ range_windows[j].start <= range_centers[j]
                /\ range_centers[j] <= range_windows[j].end
C13_Witness ==
    /\ spc = "ranges"
    /\ Len(parquet_files) = 2
    /\ positions # <<>>
    /\ Len(point_positions) = 2
    /\ range_width > 1
    /\ Len(range_windows) = 3
    /\ range_windows[1].start = pos_min
    /\ range_windows[3].end = pos_max
    /\ range_windows[3].end - range_windows[3].start + 1 < range_width

\* The run of scenario D has built its range queries: pool
\* [100, 200, 300, 400, 500], k_r = 3, width 100.
ScenarioD ==
    /\ spc = "ranges"
    /\ candidate_positions_list = <<100, 200, 300, 400, 500>>
    /\ n_range_queries = 3
    /\ range_width = 100

\* C14 as stated: in scenario D the centres are the pool entries at indexes
\* 0, 2, 4, that is 100, 300, 500; the window of centre 100 is [100, 199] and
\* the window of centre 500 is [451, 500].
C14_ScenarioWindows ==
    ScenarioD =>
        /\ idxs = <<0, 2, 4>>
        /\ range_centers = <<100, 300, 500>>
        /\ range_windows[1] = [center |-> 100, start |-> 100, end |-> 199]
        /\ range_windows[3] = [center |-> 500, start |-> 451, end |-> 500]

\* C14 amended: in scenario D the centres are the pool entries at indexes
\* 0, 2, 4, that is 100, 300, 500; the window of centre 100 is [100, 199] and
\* the window of centre 500 is [450, 500].
C14_ScenarioWindowsFrom450 ==
    ScenarioD =>
        /\ idxs = <<0, 2, 4>>
        /\ range_centers = <<100, 300, 500>>
        /\ range_windows[1] = [center |-> 100, start |-> 100, end |-> 199]
        /\ range_windows[3] = [center |-> 500, start |-> 450, end |-> 500]
C14_Witness ==
    /\ ScenarioD
    /\ pos_min = 100
    /\ pos_max = 500
    /\ Len(range_windows) = 3
    /\ range_windows[2].center = 300

\* C15: for every pool and every k_p the final list of point positions is
\* strictly increasing and has exactly min(max(0, k_p), size of the pool)
\* entries.
C15_PointsSortedAndCounted ==
    spc \in {"points", "ranges"} =>
        /\ \A j \in 1..(Len(point_positions) - 1) :
              point_positions[j] < point_positions[j + 1]
        /\ Len(point_positions) =
              Min(Max(0, n_point_queries), Len(candidate_positions_list))
C15_Witness ==
    /\ spc = "points"
    /\ n_point_queries = 3
    /\ Len(candidate_positions_list) = 2
    /\ Len(point_positions) = 2
    /\ point_positions[1] < point_positions[2]

\* C16: for every pool of length L >= 1 and every k_r >= 1 exactly k_r
\* indexes are produced, index i being i * (L-1) / max(1, k_r-1) rounded to
\* the nearest integer (a tie to the even one); every index lies in 0..L-1,
\* also when k_r > L, the indexes do not decrease, the first is 0, the last
\* is L-1 when k_r >= 2, and k_r = 1 yields the single index 0.
C16_QuantileIndexes ==
    spc = "ranges" /\ n_range_queries >= 1 =>
        LET L == Len(candidate_positions_list)
            den == Max(1, n_range_queries - 1)
        IN  /\ L >= 1
            /\ Len(idxs) = n_range_queries
            /\ Len(range_centers) = n_range_queries
            /\ \A j \in 1..Len(idxs) :
                  LET num == (j - 1) * (L - 1)
                      off == idxs[j] * den - num
                  IN  /\ 2 * off <= den
                      /\ 2 * (0 - off) <= den
                      /\ (2 * off = den \/ 2 * (0 - off) = den) => idxs[j] % 2 = 0
                      /\ 0 <= idxs[j]
                      /\ idxs[j] <= L - 1
                      /\ range_centers[j] = candidate_positions_list[idxs[j] + 1]
            /\ \A j \in 1..(Len(idxs) - 1) : idxs[j] <= idxs[j + 1]
            /\ idxs[1] = 0
            /\ n_range_queries >= 2 => idxs[Len(idxs)] = L - 1
            /\ n_range_queries = 1 => idxs = <<0>>
C16_Witness ==
    /\ spc = "ranges"
    /\ n_range_queries = 3
    /\ Len(candidate_positions_list) = 2
    /\ idxs = <<0, 0, 1>>

\* The gate calls made so far are those of the first listed contigs, in the
\* order listed, one call each; a contig is being written only after its own
\* gate call told the caller to proceed; a directory not yet gated is as the
\* run found it, and a gate call skipped exactly when the directory was
\* complete when the run began.
GatedInOrder ==
    /\ Len(gate_log) <= Len(contigs)
    /\ \A k \in 1..Len(gate_log) :
          /\ gate_log[k].contig = contigs[k]
          /\ gate_log[k].result \in {"proceed", "delete", "skip"}
          /\ gate_log[k].result = "skip" <=>
                (started[contigs[k]].exists /\ started[contigs[k]].marker)
    /\ \A k \in (Len(gate_log) + 1)..Len(contigs) :
          fs[contigs[k]] = started[contigs[k]]
    /\ pc \in {"loop", "done"} => Len(gate_log) = i - 1
    /\ pc \in {"export", "coalesce", "widen", "write", "writing", "commit"} =>
          /\ Len(gate_log) = i
          /\ gated = contigs[i]
          /\ gate_log[i].result \in {"proceed", "delete"}

\* At the end of the run every listed contig has been gated, every directory
\* has the marker; the skipped ones are as the run found them and the others
\* hold the files of this run only.
DoneComplete ==
    pc = "done" =>
        /\ Len(gate_log) = Len(contigs)
        /\ \A k \in 1..Len(contigs) :
              LET c == contigs[k]
              IN  /\ fs[c].exists /\ fs[c].marker
                  /\ IF started[c].exists /\ started[c].marker
                     THEN gate_log[k].result = "skip" /\ fs[c] = started[c]
                     ELSE gate_log[k].result # "skip" /\ fs[c].files = {run}

\* C17: with --resume and --overwrite both set, a run in which no engine call
\* fails visits the listed contigs in order, gates each exactly once before
\* writing it, terminates, and ends with every listed directory complete,
\* whatever mixture of absent, complete and incomplete directories it started
\* from: those complete at the start are skipped, all others are written.
C17_ResumeOverwriteCompletes ==
    /\ [](resume /\ overwrite /\ GatedInOrder /\ DoneComplete)
    /\ <>(pc \in {"done", "crashed"})
C17_Witness ==
    /\ pc = "done"
    /\ resume /\ overwrite
    /\ started = [c \in Contigs |-> IF c = contigs[1] THEN Incomplete ELSE Complete]
    /\ gate_log = <<[contig |-> contigs[1], result |-> "delete"],
                    [contig |-> contigs[2], result |-> "skip"]>>
    /\ fs[contigs[1]].marker

====
